---- MODULE Spec2Model ----
(***************************************************************************)
(* Model of the sevdesk-mcp adapter (src/src/index.ts): process startup,   *)
(* the CallTool dispatch handler, SevDeskClient.request and                *)
(* SevDeskClient.createPositions.                                          *)
(*                                                                         *)
(* JavaScript values are encoded as follows.                               *)
(*   - an object is a function from its keys to its values (a record);     *)
(*     a key that is absent or undefined is not in the DOMAIN;             *)
(*   - a possibly-undefined scalar is a sequence of length at most one     *)
(*     (<<>> is undefined, <<v>> is the value v);                          *)
(*   - a string built by a template literal or by JSON.stringify is a      *)
(*     sequence of tokens, Lit(s) for literal text and Json(v) for the     *)
(*     serialization of v, so that concatenation is \o and "contains" is   *)
(*     membership of a token.                                              *)
(***************************************************************************)
EXTENDS Integers, Sequences, FiniteSets, TLC

VARIABLES
    token,      \* process.env.SEVDESK_API_TOKEN
    pc,         \* position of the module's top-level code
    exitCode,   \* <<>> while the process runs, <<n>> after process.exit(n)
    sevdesk,    \* <<>> before `new SevDeskClient`, then <<the axios defaults>>
    handlers,   \* request schemas registered on the server
    connected,  \* server.connect(transport) has completed
    pending,    \* the CallTool requests the host sends over stdin, in order
    inv,        \* one record per request: the state of its handler call
    net         \* HTTP calls in flight: [inv |-> request, k |-> index in calls]

vars == <<token, pc, exitCode, sevdesk, handlers, connected, pending, inv, net>>

(* ---------------------------- bounds ---------------------------------- *)
MaxPos == 2     \* longest `positions` list of a single-request session
MaxInv == 2     \* most requests of a pipelined session

(* ------------------------- JavaScript values --------------------------- *)
Undefined == [undefined |-> TRUE]
IsUndefined(v) == "undefined" \in DOMAIN v

Get(obj, key) == IF key \in DOMAIN obj THEN <<obj[key]>> ELSE <<>>

\* truthiness of a possibly-undefined string / number
TruthyStr(o) == o # <<>> /\ o[1] # ""
TruthyNum(o) == o # <<>> /\ o[1] # 0

\* a || d, for strings and for numbers
OrElseStr(o, d) == IF TruthyStr(o) THEN o[1] ELSE d
OrElseNum(o, d) == IF TruthyNum(o) THEN o[1] ELSE d

Lit(s) == [lit |-> s]
Json(v) == [json |-> v]
JsonPretty(v) == [json |-> v, indent |-> 2]

\* `${x}` of a possibly-undefined string
Interp(o) == IF o = <<>> THEN Lit("undefined") ELSE Lit(o[1])

\* { ...obj } without `key`  (const { key, ...fields } = obj)
Rest(obj, key) == [k \in DOMAIN obj \ {key} |-> obj[k]]

\* { id: o, objectName: n }; an undefined id drops out on the wire
Ref(o, n) == IF o = <<>> THEN [objectName |-> n] ELSE [id |-> o[1], objectName |-> n]

(* ------------------------------ startup -------------------------------- *)
Tokens ==
    { [set |-> FALSE, value |-> ""],
      [set |-> TRUE, value |-> ""],
      [set |-> TRUE, value |-> "secret"] }

\* faulty variant: an empty token passes the check
TokenMissingUnsetOnly(t) == ~t.set

\* !API_TOKEN
TokenMissing(t) == ~t.set \/ t.value = ""

BASE_URL == "https://my.sevdesk.de/api/v1"

\* lines 12-16
CheckToken ==
    /\ pc = "check"
    /\ IF TokenMissing(token)
       THEN pc' = "exited" /\ exitCode' = <<1>>
       ELSE pc' = "construct" /\ UNCHANGED exitCode
    /\ UNCHANGED <<token, sevdesk, handlers, connected, pending, inv, net>>

\* lines 85-97
Construct ==
    /\ pc = "construct"
    /\ sevdesk' = << [baseURL |-> BASE_URL, Authorization |-> token.value] >>
    /\ pc' = "register"
    /\ UNCHANGED <<token, exitCode, handlers, connected, pending, inv, net>>

\* lines 99 and 280
RegisterHandlers ==
    /\ pc = "register"
    /\ handlers' = {"ListTools", "CallTool"}
    /\ pc' = "connect"
    /\ UNCHANGED <<token, exitCode, sevdesk, connected, pending, inv, net>>

\* lines 420-421
Connect ==
    /\ pc = "connect"
    /\ connected' = TRUE
    /\ pc' = "serving"
    /\ UNCHANGED <<token, exitCode, sevdesk, handlers, pending, inv, net>>

(* ------------------------- tools and inputs ---------------------------- *)
Tools ==
    { "request", "list_contacts", "create_contact", "update_contact",
      "list_invoices", "get_invoice_positions", "create_invoice",
      "update_invoice", "create_offer", "update_offer" }

CreateTools == {"create_invoice", "create_offer"}
UpdateTools == {"update_contact", "update_invoice", "update_offer"}

\* the argument the update tools take the id from
IdKey(name) == IF name = "update_contact" THEN "contactId"
               ELSE IF name = "update_invoice" THEN "invoiceId" ELSE "orderId"

\* the collection the update tools write to
UpdatePath(name) == IF name = "update_contact" THEN "/Contact/"
                    ELSE IF name = "update_invoice" THEN "/Invoice/" ELSE "/Order/"

ParentType(name) == IF name = "create_invoice" THEN "Invoice" ELSE "Order"

DefaultLimit == 50
DefaultOffset == 0
MethodNotFound == -32601

Clock == {"2026-01-01T00:00:00.000Z"}

(* ------------------------------ errors --------------------------------- *)
\* destructuring `undefined` (the request carried no arguments object)
DestructureError(prop) ==
    [class |-> "TypeError",
     message |-> <<Lit("Cannot destructure property '"), Lit(prop),
                   Lit("' of 'args' as it is undefined.")>>]

\* new McpError(code, text): the SDK prefixes the message with the code
McpError(code, text) ==
    [class |-> "McpError", code |-> code,
     message |-> <<Lit("MCP error "), Lit(ToString(code)), Lit(": ")>> \o text]

\* faulty variant: the wrong error code
UnknownToolInternal(name) ==
    McpError(-32603, <<Lit("Unknown tool: "), Lit(name)>>)

\* line 409
UnknownTool(name) ==
    McpError(MethodNotFound, <<Lit("Unknown tool: "), Lit(name)>>)

(* --------------------------- payload shaping --------------------------- *)
Call(method, url, data, params) ==
    [method |-> method, url |-> url, data |-> data, params |-> params]

\* lines 294-297
ListContactsParams(args) ==
    LET keys == {"limit", "offset", "countAll"}
                \cup (IF TruthyNum(Get(args, "depth")) THEN {"embed"} ELSE {})
                \cup (IF TruthyStr(Get(args, "customerNumber"))
                      THEN {"customerNumber"} ELSE {})
    IN [k \in keys |->
          CASE k = "limit" -> IF "limit" \in DOMAIN args THEN args.limit ELSE DefaultLimit
            [] k = "offset" -> IF "offset" \in DOMAIN args THEN args.offset ELSE DefaultOffset
            [] k = "countAll" -> TRUE
            [] k = "embed" -> "category,parent"
            [] k = "customerNumber" -> args.customerNumber]

\* lines 303-315
CreateContactPayload(args) ==
    LET opt == {k \in {"name", "surename", "familyname", "customerNumber"} :
                   TruthyStr(Get(args, k))}
    IN [k \in {"objectName", "status", "category"} \cup opt |->
          CASE k = "objectName" -> "Contact"
            [] k = "status" -> OrElseStr(Get(args, "status"), "1000")
            [] k = "category" -> Ref(Get(args, "categoryId"), "Category")
            [] OTHER -> args[k]]

\* lines 331-334
ListInvoicesParams(args) ==
    LET keys == {"limit", "offset", "countAll"}
                \cup (IF TruthyStr(Get(args, "status")) THEN {"status"} ELSE {})
                \cup (IF TruthyStr(Get(args, "contactId")) THEN {"contact[id]"} ELSE {})
    IN [k \in keys |->
          CASE k = "limit" -> IF "limit" \in DOMAIN args THEN args.limit ELSE DefaultLimit
            [] k = "offset" -> IF "offset" \in DOMAIN args THEN args.offset ELSE DefaultOffset
            [] k = "countAll" -> TRUE
            [] k = "status" -> args.status
            [] k = "contact[id]" -> args.contactId]

\* lines 340-341
InvoicePositionsParams(args) ==
    LET keys == {"limit", "offset", "invoice[objectName]"}
                \cup (IF "invoiceId" \in DOMAIN args THEN {"invoice[id]"} ELSE {})
    IN [k \in keys |->
          CASE k = "limit" -> IF "limit" \in DOMAIN args THEN args.limit ELSE DefaultLimit
            [] k = "offset" -> IF "offset" \in DOMAIN args THEN args.offset ELSE DefaultOffset
            [] k = "invoice[id]" -> args.invoiceId
            [] k = "invoice[objectName]" -> "Invoice"]

\* lines 347-358
InvoicePayload(args, now) ==
    LET keys == {"contact", "invoiceType", "status", "invoiceDate", "header",
                 "currency", "taxType", "mapAll"}
                \cup (IF TruthyStr(Get(args, "deliveryDate")) THEN {"deliveryDate"} ELSE {})
    IN [k \in keys |->
          CASE k = "contact" -> Ref(Get(args, "contactId"), "Contact")
            [] k = "invoiceType" -> "RE"
            [] k = "status" -> OrElseStr(Get(args, "status"), "100")
            [] k = "invoiceDate" -> OrElseStr(Get(args, "invoiceDate"), now)
            [] k = "header" -> OrElseStr(Get(args, "header"), "Invoice")
            [] k = "currency" -> OrElseStr(Get(args, "currency"), "EUR")
            [] k = "taxType" -> OrElseStr(Get(args, "taxType"), "default")
            [] k = "mapAll" -> TRUE
            [] k = "deliveryDate" -> args.deliveryDate]

\* lines 380-388
OfferPayload(args, now) ==
    [contact |-> Ref(Get(args, "contactId"), "Contact"),
     orderType |-> "AN",
     status |-> OrElseStr(Get(args, "status"), "100"),
     orderDate |-> OrElseStr(Get(args, "orderDate"), now),
     header |-> OrElseStr(Get(args, "header"), "Offer"),
     mapAll |-> TRUE]

\* lines 56-77: the body of one line-item POST
PositionPayload(parentId, parentType, pos) ==
    LET parentKey == IF parentType = "Invoice" THEN "invoice" ELSE "order"
        keys == {parentKey, "quantity", "unity", "taxRate", "mapAll"}
                \cup ({"price", "name"} \cap DOMAIN pos)
                \cup (IF TruthyStr(Get(pos, "text")) THEN {"text"} ELSE {})
    IN [k \in keys |->
          CASE k = parentKey -> [id |-> parentId, objectName |-> parentType]
            [] k = "quantity" -> OrElseNum(Get(pos, "quantity"), 1)
            [] k = "price" -> pos.price
            [] k = "name" -> pos.name
            [] k = "unity" -> [id |-> OrElseStr(Get(pos, "unityId"), "1"), objectName |-> "Unity"]
            [] k = "taxRate" -> OrElseNum(Get(pos, "taxRate"), 0)
            [] k = "mapAll" -> TRUE
            [] k = "text" -> pos.text]

\* line 56
PositionEndpoint(parentType) ==
    IF parentType = "Invoice" THEN "/InvoicePos" ELSE "/OrderPos"

\* lines 59-79: the POST of the j-th position
PositionCall(parentId, parentType, positions, j) ==
    Call("POST", <<Lit(PositionEndpoint(parentType))>>,
         PositionPayload(parentId, parentType, positions[j]), Undefined)

(* ------------------------- SevDeskClient.request ----------------------- *)
\* What the upstream can do to one HTTP call: answer with a status and a
\* body, fail below HTTP (no response), or make the client throw something
\* that is not an AxiosError.
HttpResponse(status, data) ==
    [kind |-> "http", response |-> <<[status |-> status, data |-> data]>>]
NetworkFailure == [kind |-> "network", response |-> <<>>]
OtherFailure == [kind |-> "throw", response |-> <<>>]

ParentBodies ==
    { [objects |-> [id |-> "42"]],
      [id |-> "43"],
      [objects |-> [id |-> "42"], id |-> "43"],
      [objects |-> [id |-> ""], id |-> "43"],
      [total |-> "0"] }

PosBodies == { [objects |-> [id |-> "p1"]], [objects |-> [id |-> "p2"]] }

OtherBodies == { [total |-> "1"] }

ErrorResponses ==
    { HttpResponse(400, [error |-> "Bad Request"]),
      HttpResponse(500, [error |-> "Server Error"]) }

Bodies(call) ==
    IF call.method = "POST" /\ call.url \in {<<Lit("/Invoice")>>, <<Lit("/Order")>>}
    THEN ParentBodies
    ELSE IF call.method = "POST"
            /\ call.url \in {<<Lit("/InvoicePos")>>, <<Lit("/OrderPos")>>}
    THEN PosBodies
    ELSE OtherBodies

Outcomes(call) ==
    {HttpResponse(200, b) : b \in Bodies(call)}
    \cup ErrorResponses \cup {NetworkFailure, OtherFailure}

\* axios' default validateStatus
ValidateStatus(status) == status >= 200 /\ status < 300

\* line 35 resolves
Resolves(o) == o.kind = "http" /\ ValidateStatus(o.response[1].status)

\* error instanceof AxiosError
IsAxiosError(o) == o.kind \in {"http", "network"} /\ ~Resolves(o)

\* faulty variant: the status is left out of the message
ApiErrorNoStatus(o) ==
    [class |-> "Error",
     message |-> <<Lit("SevDesk API Error: "),
                   IF o.response = <<>> THEN Lit("undefined")
                   ELSE Json(o.response[1].data)>>]

\* lines 44-48
ApiError(o) ==
    [class |-> "Error",
     message |-> <<Lit("SevDesk API Error: "),
                   IF o.response = <<>> THEN Lit("undefined")
                   ELSE Lit(ToString(o.response[1].status)),
                   Lit(" - "),
                   IF o.response = <<>> THEN Lit("undefined")
                   ELSE Json(o.response[1].data)>>]

\* lines 42-51: what request() throws when line 35 rejects
RequestError(o) ==
    IF IsAxiosError(o) THEN ApiError(o)
    ELSE [class |-> "Error", message |-> <<Lit("unexpected failure")>>]

(* --------------------------- CallTool handler -------------------------- *)
NoInv ==
    [st |-> "none", name |-> "", args |-> Undefined, calls |-> <<>>,
     resps |-> <<>>, parent |-> Undefined, parentId |-> <<>>,
     results |-> <<>>, raised |-> <<>>, out |-> Undefined, rejected |-> <<>>]

\* the first property each case destructures from args
FirstProp(name) ==
    CASE name = "request" -> "method"
      [] name \in {"list_contacts", "list_invoices"} -> "limit"
      [] name = "create_contact" -> "name"
      [] name \in {"update_contact", "create_invoice", "create_offer"} -> "contactId"
      [] name \in {"get_invoice_positions", "update_invoice"} -> "invoiceId"
      [] OTHER -> "orderId"

\* faulty variant: `name` is sent as `objectName`
UpdatePayloadRenamed(name, args) ==
    LET fields == Rest(args, IdKey(name))
    IN [k \in {IF f = "name" THEN "objectName" ELSE f : f \in DOMAIN fields} |->
          IF k = "objectName" /\ "name" \in DOMAIN fields THEN fields["name"]
          ELSE fields[k]]

\* lines 322-323, 374, 403
UpdatePayload(name, args) == Rest(args, IdKey(name))

\* lines 284-410 up to the first await: the call issued, or the error thrown
Dispatch(name, args, now) ==
    IF name \notin Tools
    THEN [kind |-> "throw", error |-> UnknownTool(name)]
    ELSE IF IsUndefined(args)
    THEN [kind |-> "throw", error |-> DestructureError(FirstProp(name))]
    ELSE [kind |-> "call", call |->
      CASE name = "request" ->
             Call(IF "method" \in DOMAIN args THEN args.method ELSE "GET",
                  IF "url" \in DOMAIN args THEN <<Lit(args.url)>> ELSE <<>>,
                  IF "data" \in DOMAIN args THEN args.data ELSE Undefined,
                  IF "params" \in DOMAIN args THEN args.params ELSE Undefined)
        [] name = "list_contacts" ->
             Call("GET", <<Lit("/Contact")>>, Undefined, ListContactsParams(args))
        [] name = "create_contact" ->
             Call("POST", <<Lit("/Contact")>>, CreateContactPayload(args), Undefined)
        [] name \in UpdateTools ->
             Call("PUT", <<Lit(UpdatePath(name)), Interp(Get(args, IdKey(name)))>>,
                  UpdatePayload(name, args), Undefined)
        [] name = "list_invoices" ->
             Call("GET", <<Lit("/Invoice")>>, Undefined, ListInvoicesParams(args))
        [] name = "get_invoice_positions" ->
             Call("GET", <<Lit("/InvoicePos")>>, Undefined, InvoicePositionsParams(args))
        [] name = "create_invoice" ->
             Call("POST", <<Lit("/Invoice")>>, InvoicePayload(args, now), Undefined)
        [] name = "create_offer" ->
             Call("POST", <<Lit("/Order")>>, OfferPayload(args, now), Undefined)]

\* { content: [{ type: "text", text: JSON.stringify(v, null, 2) }] }
ToolResult(v) == [content |-> <<[type |-> "text", text |-> <<JsonPretty(v)>>]>>]

\* lines 412-416
ErrorResult(error) ==
    [content |-> <<[type |-> "text", text |-> <<Lit("Error: ")>> \o error.message]>>,
     isError |-> TRUE]

\* faulty variant: the handler lets the error escape
Rethrow(r, error) == [r EXCEPT !.st = "done", !.rejected = <<error>>]

\* lines 411-417
Catch(r, error) == [r EXCEPT !.st = "done", !.out = ErrorResult(error)]

Return(r, v) == [r EXCEPT !.st = "done", !.out = ToolResult(v)]

\* faulty variant: response.id || response.objects?.id
ResolveIdTopFirst(body) ==
    LET nested == IF "objects" \in DOMAIN body THEN Get(body.objects, "id") ELSE <<>>
    IN IF TruthyStr(Get(body, "id")) THEN Get(body, "id") ELSE nested

\* lines 361, 391: response.objects?.id || response.id
ResolveId(body) ==
    LET nested == IF "objects" \in DOMAIN body THEN Get(body.objects, "id") ELSE <<>>
    IN IF TruthyStr(nested) THEN nested ELSE Get(body, "id")

\* lines 366, 396
Composite(name, parent, results) ==
    IF name = "create_invoice"
    THEN [invoice |-> parent, positions |-> results]
    ELSE [offer |-> parent, positions |-> results]

\* faulty variant: all line-item POSTs go out together
IssueAllAtOnce(k, n) == IF k = 0 THEN [j \in 1..n |-> j] ELSE <<>>

\* lines 59, 79: the positions whose POST goes out once k responses are in
IssueAfter(k, n) == IF k < n THEN <<k + 1>> ELSE <<>>

\* faulty variant: results.unshift(...)
Unshift(results, body) == <<body>> \o results

\* line 79: results.push(...)
PushResult(results, body) == Append(results, body)

\* r with the POSTs of the positions js appended to its calls
Issue(r, js) ==
    LET pt == ParentType(r.name)
    IN [r EXCEPT !.calls = @ \o
          [x \in 1..Len(js) |-> PositionCall(r.parentId[1], pt, r.args.positions, js[x])]]

\* lines 363, 393: positions && positions.length > 0 && invoiceId
HasPositionsAndId(positions, id) ==
    positions # <<>> /\ Len(positions[1]) > 0 /\ TruthyStr(id)

\* faulty variant: the composite is returned even without positions
AfterParentAlwaysComposite(r, body) ==
    LET id == ResolveId(body)
        positions == Get(r.args, "positions")
        r1 == [r EXCEPT !.parent = body, !.parentId = id]
    IN IF HasPositionsAndId(positions, id)
       THEN Issue(r1, IssueAfter(0, Len(positions[1])))
       ELSE Return(r1, Composite(r.name, body, <<>>))

\* faulty variant: createPositions is not awaited
AfterParentNoAwait(r, body) ==
    LET id == ResolveId(body)
        positions == Get(r.args, "positions")
        r1 == [r EXCEPT !.parent = body, !.parentId = id]
    IN IF HasPositionsAndId(positions, id)
       THEN Return(Issue(r1, IssueAfter(0, Len(positions[1]))),
                   Composite(r.name, body, <<>>))
       ELSE Return(r1, body)

\* lines 360-370, 390-399: the parent POST has resolved with `body`
AfterParent(r, body) ==
    LET id == ResolveId(body)
        positions == Get(r.args, "positions")
        r1 == [r EXCEPT !.parent = body, !.parentId = id]
    IN IF HasPositionsAndId(positions, id)
       THEN Issue(r1, IssueAfter(0, Len(positions[1])))
       ELSE Return(r1, body)

\* lines 59-81 and 365-367: a line-item POST has resolved with `body`
AfterPosition(r, body) ==
    LET n == Len(r.args.positions)
        r1 == [r EXCEPT !.results = PushResult(@, body)]
    IN IF Len(r1.results) < n
       THEN Issue(r1, IssueAfter(Len(r1.results), n))
       ELSE Return(r1, Composite(r.name, r.parent, r1.results))

\* the handler resumes after `await sevdesk.request(...)` returned `body`
AfterResolve(r, body) ==
    IF r.name \notin CreateTools THEN Return(r, body)
    ELSE IF IsUndefined(r.parent) THEN AfterParent(r, body)
    ELSE AfterPosition(r, body)

\* faulty variant: a failed line-item POST is swallowed and the loop goes on
AfterRejectContinue(r, o) ==
    IF r.name \in CreateTools /\ ~IsUndefined(r.parent)
    THEN AfterPosition(r, [failed |-> TRUE])
    ELSE Catch(r, RequestError(o))

\* the handler resumes after `await sevdesk.request(...)` threw
AfterReject(r, o) == Catch(r, RequestError(o))

(* ------------------------------ sessions ------------------------------- *)
pA == [name |-> "Widget", price |-> 10]
pB == [name |-> "Gadget", price |-> 20, quantity |-> 2, taxRate |-> 19,
       unityId |-> "9", text |-> "blue"]
pC == [name |-> "Gizmo", price |-> 5, quantity |-> 0, taxRate |-> 0,
       unityId |-> "", text |-> ""]

LineItems == {pA, pB, pC}

\* every positions list of at most MaxPos items, the empty one included
PosLists == UNION {[1..n -> LineItems] : n \in 0..MaxPos}

Req(name, args) == [name |-> name, args |-> args]

CreateArgs ==
    {Undefined, [contactId |-> "5"]}
    \cup {[contactId |-> "5", positions |-> l] : l \in PosLists}
    \cup {[contactId |-> "5", status |-> "200", header |-> "H",
           deliveryDate |-> "2026-02-01", positions |-> <<pA>>]}

Requests ==
    {Req("request", a) : a \in
        {Undefined, [method |-> "GET", url |-> "/Contact/1"],
         [method |-> "POST", url |-> "/Tag", data |-> [name |-> "t"],
          params |-> [embed |-> "x"]]}}
    \cup {Req("list_contacts", a) : a \in
        {Undefined, [limit |-> 10], [depth |-> 1, customerNumber |-> "C1"]}}
    \cup {Req("create_contact", a) : a \in
        {Undefined, [name |-> "Acme Corp", categoryId |-> "3"],
         [surename |-> "A", familyname |-> "B", categoryId |-> "2",
          status |-> "500", customerNumber |-> "C1"]}}
    \cup {Req("update_contact", a) : a \in
        {Undefined, [contactId |-> "7", name |-> "N"], [name |-> "N"],
         [contactId |-> "7", status |-> "500", invoiceId |-> "9"]}}
    \cup {Req("list_invoices", a) : a \in
        {Undefined, [offset |-> 5], [status |-> "100", contactId |-> "7"]}}
    \cup {Req("get_invoice_positions", a) : a \in
        {Undefined, [invoiceId |-> "9"]}}
    \cup {Req("create_invoice", a) : a \in CreateArgs}
    \cup {Req("update_invoice", a) : a \in
        {Undefined, [invoiceId |-> "9", header |-> "H", contactId |-> "7"]}}
    \cup {Req("create_offer", a) : a \in CreateArgs}
    \cup {Req("update_offer", a) : a \in
        {Undefined, [orderId |-> "8", status |-> "200", name |-> "N"]}}
    \cup {Req("delete_contact", a) : a \in {Undefined, [contactId |-> "7"]}}

\* the requests a host pipelines without waiting for the previous response
PipeRequests ==
    { Req("list_contacts", [limit |-> 10]),
      Req("create_offer", [contactId |-> "5", positions |-> <<pA>>]),
      Req("delete_contact", [contactId |-> "7"]) }

\* what the host sends: one request, or up to MaxInv requests back to back
Sessions ==
    {<<q>> : q \in Requests}
    \cup UNION {[1..n -> PipeRequests] : n \in 2..MaxInv}

(* ------------------------------- actions ------------------------------- *)
Init ==
    /\ token \in Tokens
    /\ pc = "check"
    /\ exitCode = <<>>
    /\ sevdesk = <<>>
    /\ handlers = {}
    /\ connected = FALSE
    /\ pending \in Sessions
    /\ inv = [i \in DOMAIN pending |-> NoInv]
    /\ net = {}

\* the calls of request i that r2 issued and r did not
NewCalls(i, r, r2) == {[inv |-> i, k |-> k] : k \in (Len(r.calls) + 1)..Len(r2.calls)}

\* lines 280-284: the transport delivers request i and the handler runs up
\* to its first await
Receive(i) ==
    /\ connected
    /\ "CallTool" \in handlers
    /\ inv[i].st = "none"
    /\ \A j \in 1..(i - 1) : inv[j].st # "none"
    /\ \E now \in Clock :
         LET r == [NoInv EXCEPT !.st = "running", !.name = pending[i].name,
                                !.args = pending[i].args]
             step == Dispatch(r.name, r.args, now)
             r2 == IF step.kind = "throw"
                   THEN Catch([r EXCEPT !.raised = <<step.error>>], step.error)
                   ELSE [r EXCEPT !.calls = <<step.call>>]
         IN /\ inv' = [inv EXCEPT ![i] = r2]
            /\ net' = net \cup NewCalls(i, r, r2)
    /\ UNCHANGED <<token, pc, exitCode, sevdesk, handlers, connected, pending>>

\* lines 35-41: an HTTP call of request i resolves and its handler resumes
HttpResolve(i) ==
    \E c \in net :
      /\ c.inv = i
      /\ \E o \in Outcomes(inv[i].calls[c.k]) :
           /\ Resolves(o)
           /\ LET r == [inv[i] EXCEPT !.resps = Append(@, o)]
                  r2 == AfterResolve(r, o.response[1].data)
              IN /\ inv' = [inv EXCEPT ![i] = r2]
                 /\ net' = (net \ {c}) \cup NewCalls(i, r, r2)
      /\ UNCHANGED <<token, pc, exitCode, sevdesk, handlers, connected, pending>>

\* lines 42-51: an HTTP call of request i fails and its handler resumes
HttpReject(i) ==
    \E c \in net :
      /\ c.inv = i
      /\ \E o \in Outcomes(inv[i].calls[c.k]) :
           /\ ~Resolves(o)
           /\ LET r == [inv[i] EXCEPT !.resps = Append(@, o),
                                        !.raised = <<RequestError(o)>>]
                  r2 == AfterReject(r, o)
              IN /\ inv' = [inv EXCEPT ![i] = r2]
                 /\ net' = (net \ {c}) \cup NewCalls(i, r, r2)
      /\ UNCHANGED <<token, pc, exitCode, sevdesk, handlers, connected, pending>>

Next ==
    \/ CheckToken
    \/ Construct
    \/ RegisterHandlers
    \/ Connect
    \/ \E i \in DOMAIN pending : Receive(i)
    \/ \E i \in DOMAIN pending : HttpResolve(i)
    \/ \E i \in DOMAIN pending : HttpReject(i)

Spec == Init /\ [][Next]_vars

(* ------------------------- vocabulary of the claims -------------------- *)
Received(i) == inv[i].st # "none"
Done(i) == inv[i].st = "done"
InFlight(i) == {c \in net : c.inv = i}
HasArgs(i) == ~IsUndefined(inv[i].args)
IsCreate(i) == Received(i) /\ inv[i].name \in CreateTools /\ HasArgs(i)
PositionsOf(i) == IF "positions" \in DOMAIN inv[i].args THEN inv[i].args.positions ELSE <<>>
IsErrorOut(out) == "isError" \in DOMAIN out /\ out.isError
Returned(i) == Done(i) /\ ~IsUndefined(inv[i].out)
TextOf(i) == inv[i].out.content[1].text
Contains(text, tok) == \E k \in 1..Len(text) : text[k] = tok
BodyOf(o) == o.response[1].data
StatusOf(o) == o.response[1].status
\* the parent POST of a create invocation answered with an id the handler accepts
ParentResolved(i) ==
    /\ Len(inv[i].resps) >= 1
    /\ Resolves(inv[i].resps[1])
    /\ TruthyStr(ResolveId(BodyOf(inv[i].resps[1])))
IsLineItemPost(i, c) ==
    /\ c.method = "POST"
    /\ c.url = <<Lit(IF inv[i].name = "create_invoice" THEN "/InvoicePos" ELSE "/OrderPos")>>

\* C1: a create_invoice / create_offer invocation with n > 0 positions, a
\* resolved parent id and no failed HTTP call issues exactly n line-item
\* POSTs, the j-th carrying the j-th input position, and returns the n
\* responses in input order.
C1_PositionsInOrder ==
    \A i \in DOMAIN inv :
      LET n == Len(PositionsOf(i))
          r == inv[i]
      IN (/\ IsCreate(i) /\ Done(i) /\ n > 0 /\ ParentResolved(i)
          /\ \A k \in 1..Len(r.resps) : Resolves(r.resps[k]))
         => /\ Len(r.calls) = n + 1
            /\ Len(r.resps) = n + 1
            /\ \A j \in 1..n :
                 /\ IsLineItemPost(i, r.calls[j + 1])
                 /\ r.calls[j + 1].data.name = PositionsOf(i)[j].name
                 /\ r.calls[j + 1].data.price = PositionsOf(i)[j].price
            /\ Returned(i) /\ ~IsErrorOut(r.out)
            /\ Len(TextOf(i)) = 1
            /\ "positions" \in DOMAIN TextOf(i)[1].json
            /\ TextOf(i)[1].json.positions = [j \in 1..n |-> BodyOf(r.resps[j + 1])]

C1_Witness ==
    \E i \in DOMAIN inv :
      /\ IsCreate(i) /\ Done(i) /\ Len(PositionsOf(i)) = 2
      /\ PositionsOf(i)[1] # PositionsOf(i)[2]
      /\ Len(inv[i].resps) = 3
      /\ \A k \in 1..3 : Resolves(inv[i].resps[k])
      /\ BodyOf(inv[i].resps[2]) # BodyOf(inv[i].resps[3])

\* C2: when line-item POST k fails, the invocation issues no further HTTP
\* call (no later position, no retry, no rollback) and answers with an
\* error result that lists no created positions.
C2_AbortOnPositionFailure ==
    \A i \in DOMAIN inv :
      \A k \in 2..Len(inv[i].resps) :
        (IsCreate(i) /\ ~Resolves(inv[i].resps[k]))
        => /\ Len(inv[i].calls) = k
           /\ Len(inv[i].resps) = k
           /\ InFlight(i) = {}
           /\ \A m \in 1..k : inv[i].calls[m].method = "POST"
           /\ Returned(i) /\ IsErrorOut(inv[i].out)
           /\ TextOf(i)[1] = Lit("Error: ")
           /\ \A m \in 1..Len(TextOf(i)) : "json" \notin DOMAIN TextOf(i)[m]
                                             \/ "indent" \notin DOMAIN TextOf(i)[m]

C2_Witness ==
    \E i \in DOMAIN inv :
      /\ IsCreate(i) /\ Len(PositionsOf(i)) = 2
      /\ Len(inv[i].resps) = 2 /\ ~Resolves(inv[i].resps[2])
      /\ Done(i)

\* C3: in a create invocation every line-item POST is issued after the
\* parent POST resolved with an id and after the previous line-item POST
\* resolved; at most one HTTP call of the invocation is in flight; a failed
\* parent POST is followed by no line-item POST.
C3_StrictlySequential ==
    \A i \in DOMAIN inv :
      IsCreate(i) =>
        /\ \A k \in 2..Len(inv[i].calls) :
             /\ Len(inv[i].resps) >= k - 1
             /\ \A m \in 1..(k - 1) : Resolves(inv[i].resps[m])
             /\ ParentResolved(i)
        /\ Cardinality(InFlight(i)) <= 1
        /\ (Len(inv[i].resps) >= 1 /\ ~Resolves(inv[i].resps[1]))
             => (Len(inv[i].calls) = 1 /\ InFlight(i) = {})

C3_Witness ==
    \E i \in DOMAIN inv :
      /\ IsCreate(i) /\ Len(inv[i].calls) = 3 /\ Len(inv[i].resps) = 2
      /\ InFlight(i) = {[inv |-> i, k |-> 3]}

\* C4: a successful create_invoice / create_offer returns the composite of
\* the document response and a positions sequence if and only if positions
\* is a non-empty list and a parent id was resolved; otherwise it issues no
\* line-item POST and returns exactly the raw document response.
C4_CompositeIffPositionsAndId ==
    \A i \in DOMAIN inv :
      (IsCreate(i) /\ Returned(i) /\ ~IsErrorOut(inv[i].out)) =>
        LET body == BodyOf(inv[i].resps[1])
            docKey == IF inv[i].name = "create_invoice" THEN "invoice" ELSE "offer"
            v == TextOf(i)[1].json
            composite == /\ DOMAIN v = {docKey, "positions"}
                         /\ v[docKey] = body
            expected == Len(PositionsOf(i)) > 0 /\ ParentResolved(i)
        IN /\ Len(TextOf(i)) = 1
           /\ composite <=> expected
           /\ ~expected => /\ Len(inv[i].calls) = 1
                            /\ TextOf(i) = <<JsonPretty(body)>>
                            /\ "positions" \notin DOMAIN v

C4_Witness ==
    \E i \in DOMAIN inv :
      /\ IsCreate(i) /\ Returned(i) /\ ~IsErrorOut(inv[i].out)
      /\ "positions" \in DOMAIN inv[i].args /\ inv[i].args.positions = <<>>
      /\ ParentResolved(i)
      /\ TextOf(i) = <<JsonPretty(BodyOf(inv[i].resps[1]))>>

\* C5 as stated: whatever error is raised while handling an invocation,
\* the handler does not throw and returns an error-flagged result whose
\* payload is the error's message text.
C5_PayloadIsMessage ==
    \A i \in DOMAIN inv :
      inv[i].raised # <<>> =>
        /\ Done(i) /\ inv[i].rejected = <<>>
        /\ Returned(i) /\ IsErrorOut(inv[i].out)
        /\ TextOf(i) = inv[i].raised[1].message

\* C5 as amended: whatever error is raised while handling an invocation,
\* the handler does not throw and returns an error-flagged result whose
\* payload is the literal "Error: " followed by the error's message text.
C5_PayloadIsPrefixedMessage ==
    \A i \in DOMAIN inv :
      inv[i].raised # <<>> =>
        /\ Done(i) /\ inv[i].rejected = <<>>
        /\ Returned(i) /\ IsErrorOut(inv[i].out)
        /\ Len(inv[i].out.content) = 1
        /\ inv[i].out.content[1].type = "text"
        /\ TextOf(i) = <<Lit("Error: ")>> \o inv[i].raised[1].message

C5_Witness ==
    /\ \E i \in DOMAIN inv :
         Returned(i) /\ inv[i].raised # <<>> /\ inv[i].raised[1].class = "TypeError"
    \/ \E i \in DOMAIN inv :
         /\ Returned(i) /\ inv[i].raised # <<>>
         /\ Len(inv[i].resps) >= 1
         /\ inv[i].resps[Len(inv[i].resps)].kind = "network"

\* C6: an upstream response with status >= 400 to any HTTP call of any
\* operation surfaces as an error whose text contains the numeric status
\* and the JSON-serialized response body.
C6_StatusAndBodyInError ==
    \A i \in DOMAIN inv :
      \A k \in 1..Len(inv[i].resps) :
        LET o == inv[i].resps[k]
        IN (o.kind = "http" /\ StatusOf(o) >= 400) =>
             /\ Returned(i) /\ IsErrorOut(inv[i].out)
             /\ Contains(TextOf(i), Lit(ToString(StatusOf(o))))
             /\ Contains(TextOf(i), Json(BodyOf(o)))

C6_Witness ==
    \E i \in DOMAIN inv :
      /\ Returned(i) /\ Len(inv[i].resps) = 2
      /\ inv[i].resps[2].kind = "http" /\ StatusOf(inv[i].resps[2]) = 500

\* C7: an invocation naming an operation outside the ten tools issues no
\* HTTP call and is answered with a method-not-found error.
C7_UnknownToolMethodNotFound ==
    \A i \in DOMAIN inv :
      (Received(i) /\ inv[i].name \notin Tools) =>
        /\ inv[i].calls = <<>> /\ InFlight(i) = {}
        /\ inv[i].raised # <<>>
        /\ inv[i].raised[1].class = "McpError"
        /\ inv[i].raised[1].code = -32601
        /\ Returned(i) /\ IsErrorOut(inv[i].out)
        /\ Contains(TextOf(i), Lit("-32601"))
        /\ Contains(TextOf(i), Lit("Unknown tool: "))
        /\ Contains(TextOf(i), Lit(inv[i].name))

C7_Witness ==
    \E i \in DOMAIN inv :
      Returned(i) /\ inv[i].name = "delete_contact" /\ HasArgs(i)

\* C8 as stated: invocations are processed one at a time to completion: no
\* HTTP call of a later invocation is issued while an earlier one has not
\* yet returned.
C8_OneInvocationAtATime ==
    \A i, j \in DOMAIN inv :
      (i < j /\ inv[i].st = "running") => inv[j].calls = <<>>

\* C8 as amended: each invocation has at most one HTTP call in flight, and
\* none before it is received or after it has returned; nothing serializes
\* invocations against each other.
C8_SequentialWithinInvocation ==
    \A i \in DOMAIN inv :
      /\ Cardinality(InFlight(i)) <= 1
      /\ inv[i].st # "running" => InFlight(i) = {}
      /\ ~Received(i) => inv[i].calls = <<>>
      /\ \A c \in InFlight(i) : c.k = Len(inv[i].calls)

C8_Witness ==
    \E i, j \in DOMAIN inv :
      /\ i < j
      /\ inv[i].st = "running" /\ InFlight(i) # {}
      /\ inv[j].st = "running" /\ InFlight(j) # {}

\* C9 as stated: every update_contact / update_invoice / update_offer
\* invocation issues exactly one PUT, to the path built from its id
\* argument, whose body is exactly the other supplied arguments unchanged.
C9_UpdatePassThrough ==
    \A i \in DOMAIN inv :
      (Received(i) /\ inv[i].name \in UpdateTools) =>
        LET a == inv[i].args
            idKey == CASE inv[i].name = "update_contact" -> "contactId"
                       [] inv[i].name = "update_invoice" -> "invoiceId"
                       [] inv[i].name = "update_offer" -> "orderId"
            path == CASE inv[i].name = "update_contact" -> "/Contact/"
                      [] inv[i].name = "update_invoice" -> "/Invoice/"
                      [] inv[i].name = "update_offer" -> "/Order/"
        IN /\ Len(inv[i].calls) = 1
           /\ inv[i].calls[1].method = "PUT"
           /\ idKey \in DOMAIN a => inv[i].calls[1].url = <<Lit(path), Lit(a[idKey])>>
           /\ DOMAIN inv[i].calls[1].data = DOMAIN a \ {idKey}
           /\ \A f \in DOMAIN a \ {idKey} : inv[i].calls[1].data[f] = a[f]

\* C9 as amended: every update invocation that carries an arguments object
\* issues exactly one PUT, to the path built from its id argument, whose
\* body is exactly the other supplied arguments unchanged; one without an
\* arguments object issues no HTTP call and returns an error result.
C9_UpdatePassThroughWithArgs ==
    \A i \in DOMAIN inv :
      (Received(i) /\ inv[i].name \in UpdateTools) =>
        LET a == inv[i].args
            idKey == CASE inv[i].name = "update_contact" -> "contactId"
                       [] inv[i].name = "update_invoice" -> "invoiceId"
                       [] inv[i].name = "update_offer" -> "orderId"
            path == CASE inv[i].name = "update_contact" -> "/Contact/"
                      [] inv[i].name = "update_invoice" -> "/Invoice/"
                      [] inv[i].name = "update_offer" -> "/Order/"
        IN IF HasArgs(i)
           THEN /\ Len(inv[i].calls) = 1
                /\ inv[i].calls[1].method = "PUT"
                /\ inv[i].calls[1].params = Undefined
                /\ idKey \in DOMAIN a => inv[i].calls[1].url = <<Lit(path), Lit(a[idKey])>>
                /\ DOMAIN inv[i].calls[1].data = DOMAIN a \ {idKey}
                /\ \A f \in DOMAIN a \ {idKey} : inv[i].calls[1].data[f] = a[f]
           ELSE inv[i].calls = <<>> /\ Returned(i) /\ IsErrorOut(inv[i].out)

C9_Witness ==
    \E i \in DOMAIN inv :
      /\ Done(i) /\ inv[i].name = "update_contact" /\ HasArgs(i)
      /\ "name" \in DOMAIN inv[i].args /\ "contactId" \in DOMAIN inv[i].args
      /\ Len(inv[i].calls) = 1

\* C10: with the credential missing the process exits non-zero before the
\* client is built, before any handler is registered and before the
\* transport is connected; no operation is invoked and no HTTP call issued.
C10_MissingTokenExits ==
    (~token.set \/ token.value = "") =>
      /\ pc \in {"check", "exited"}
      /\ pc = "exited" => (exitCode # <<>> /\ exitCode[1] # 0)
      /\ sevdesk = <<>>
      /\ handlers = {}
      /\ ~connected
      /\ \A i \in DOMAIN inv : ~Received(i) /\ inv[i].calls = <<>>
      /\ net = {}

C10_Witness ==
    /\ token = [set |-> TRUE, value |-> ""]
    /\ pc = "exited"
    /\ exitCode = <<1>>

\* C11: every line-item POST goes to the collection of its parent kind and
\* carries the parent Reference (relation key, resolved id, kind), quantity
\* as supplied or else 1, taxRate as supplied or else 0, a unity Reference
\* with the supplied unityId or else "1", price and name from the input,
\* the mapAll flag, and text only if supplied.
C11_LineItemPayload ==
    \A i \in DOMAIN inv :
      IsCreate(i) =>
        \A k \in 2..Len(inv[i].calls) :
          LET pos == PositionsOf(i)[k - 1]
              c == inv[i].calls[k]
              kind == IF inv[i].name = "create_invoice" THEN "Invoice" ELSE "Order"
              key == IF inv[i].name = "create_invoice" THEN "invoice" ELSE "order"
          IN /\ IsLineItemPost(i, c)
             /\ DOMAIN c.data =
                  {key, "quantity", "price", "name", "unity", "taxRate", "mapAll"}
                  \cup (IF "text" \in DOMAIN pos THEN {"text"} ELSE {})
             /\ c.data[key] = [id |-> inv[i].parentId[1], objectName |-> kind]
             /\ c.data.quantity = IF "quantity" \in DOMAIN pos THEN pos.quantity ELSE 1
             /\ c.data.taxRate = IF "taxRate" \in DOMAIN pos THEN pos.taxRate ELSE 0
             /\ c.data.unity =
                  [id |-> IF "unityId" \in DOMAIN pos THEN pos.unityId ELSE "1",
                   objectName |-> "Unity"]
             /\ c.data.price = pos.price
             /\ c.data.name = pos.name
             /\ c.data.mapAll = TRUE
             /\ "text" \in DOMAIN pos => c.data.text = pos.text

\* C12 as stated: the parent id used for position creation is the nested
\* objects.id whenever that field is present and the top-level id only when
\* it is absent; the id is unresolved only when neither field is present.
C12_NestedIdWheneverPresent ==
    \A i \in DOMAIN inv :
      (IsCreate(i) /\ Len(inv[i].resps) >= 1 /\ Resolves(inv[i].resps[1])) =>
        LET body == BodyOf(inv[i].resps[1])
            nested == "objects" \in DOMAIN body /\ "id" \in DOMAIN body.objects
            top == "id" \in DOMAIN body
            used == IF nested THEN <<body.objects.id>>
                    ELSE IF top THEN <<body.id>> ELSE <<>>
            key == IF inv[i].name = "create_invoice" THEN "invoice" ELSE "order"
        IN /\ inv[i].parentId = used
           /\ \A k \in 2..Len(inv[i].calls) : inv[i].calls[k].data[key].id = used[1]
           /\ Len(PositionsOf(i)) > 0 => (Len(inv[i].calls) >= 2 <=> (nested \/ top))

\* C12 as amended: the parent id used for position creation is the nested
\* objects.id whenever that field is present and non-empty, and the
\* top-level id otherwise; the id is unresolved exactly when neither field
\* holds a non-empty value.
C12_NestedIdWheneverTruthy ==
    \A i \in DOMAIN inv :
      (IsCreate(i) /\ Len(inv[i].resps) >= 1 /\ Resolves(inv[i].resps[1])) =>
        LET body == BodyOf(inv[i].resps[1])
            nested == /\ "objects" \in DOMAIN body
                      /\ "id" \in DOMAIN body.objects
                      /\ body.objects.id # ""
            top == "id" \in DOMAIN body /\ body.id # ""
            used == IF nested THEN <<body.objects.id>>
                    ELSE IF "id" \in DOMAIN body THEN <<body.id>> ELSE <<>>
            key == IF inv[i].name = "create_invoice" THEN "invoice" ELSE "order"
        IN /\ inv[i].parentId = used
           /\ \A k \in 2..Len(inv[i].calls) : inv[i].calls[k].data[key].id = used[1]
           /\ Len(PositionsOf(i)) > 0 => (Len(inv[i].calls) >= 2 <=> (nested \/ top))

C12_Witness ==
    \E i \in DOMAIN inv :
      /\ IsCreate(i) /\ Len(inv[i].resps) >= 1 /\ Resolves(inv[i].resps[1])
      /\ BodyOf(inv[i].resps[1]) = [objects |-> [id |-> ""], id |-> "43"]
      /\ Len(inv[i].calls) >= 2
      /\ inv[i].calls[2].data[IF inv[i].name = "create_invoice"
                                THEN "invoice" ELSE "order"].id = "43"

====
